---- MODULE Spec2Model ----
(***************************************************************************)
(* A model of SortedMap (src/itmod/collections/SortedMap.ts): an ordered   *)
(* key-value map backed by a binary search tree of Node objects that cache *)
(* depth, nodeCount and balanceFactor and are rebalanced by single         *)
(* rotations.                                                              *)
(*                                                                         *)
(* Node objects live in the heap `nodes' (a sequence indexed by object     *)
(* identity); every field of the class is a field of the record.  Each     *)
(* public method is one action; the private recursive helpers are          *)
(* RECURSIVE operators that thread the heap through the recursion exactly  *)
(* as the code mutates it.  A TypeError raised by a rotation on an absent  *)
(* child propagates as `err': the assignments that the code would have     *)
(* made after the throw are not made.                                      *)
(*                                                                         *)
(* Object identities are abstract.  The heap holds the objects the program *)
(* can still reach: the nodes of the trees, the entry the caller holds and *)
(* the nodes that the frames of a traversal in progress are on.            *)
(* After every call `collect' drops the unreachable objects and lays the   *)
(* rest out in a canonical order, renaming every reference (child links,   *)
(* roots, the held entry) accordingly, so that two heaps that differ only  *)
(* in the names of their objects are one state.                            *)
(***************************************************************************)
EXTENDS Integers, Sequences, FiniteSets, TLC

----------------------------------------------------------------------------
(* Bounds *)

\* keys are the non-zero integers -NegKeys..MaxKey, ordered by absolute value,
\* so that k and -k are distinct keys that the comparator reports as equal
MaxKey == 4
NegKeys == 1
\* values are 1..MaxVal
MaxVal == 2
\* number of entries the maps hold together
MaxNodes == 4
\* the same, and the largest key, for the range queries
MaxNodesRange == 5
MaxKeyRange == 5
\* the same, and the largest key, when the caller holds on to an entry
MaxNodesHeld == 3
MaxKeyHeld == 3
\* the same, and the largest key, for two maps side by side
MaxNodesTwo == 3
MaxKeyTwo == 2
MaxNodesIter == 2
MaxKeyIter == 3
MaxYield == 3

KeysTo(max) == { k \in (0 - NegKeys)..max : k # 0 }
Keys == KeysTo(MaxKey)
Values == 1..MaxVal

\* `undefined' for a node reference, a map reference or a value
Nil == 0

----------------------------------------------------------------------------
(* State *)

VARIABLES
    nodes,        \* heap of Node objects: nodes[n] is the object with identity n
    root,         \* root[m]: SortedMap.root of map m (Nil when undefined)
    comparator,   \* comparator[m]: SortedMap.comparator of map m (1 natural, -1 reversed)
    held,         \* the entry (SortedMapEntry) the caller has kept from an earlier call, or Nil
    cursor        \* the traversal (Generator) the caller has begun and steps through

vars == <<nodes, root, comparator, held, cursor>>

Maps == DOMAIN root

----------------------------------------------------------------------------
(* ../sorting: comparators *)

Abs(x) == IF x < 0 THEN 0 - x ELSE x

Max(a, b) == IF a > b THEN a ELSE b

\* the Order the maps are constructed with: by absolute value
keyOrder(a, b) == IF Abs(a) < Abs(b) THEN 0 - 1 ELSE IF Abs(a) > Abs(b) THEN 1 ELSE 0

\* a comparator is keyOrder or its reverse; c is 1 or -1
compare(c, a, b) == c * keyOrder(a, b)

reverseComparator(c) == 0 - c

cmpLT(cmp) == cmp < 0
cmpGT(cmp) == cmp > 0
cmpLE(cmp) == cmp <= 0
cmpGE(cmp) == cmp >= 0
cmpNQ(cmp) == cmp # 0

----------------------------------------------------------------------------
(* class Node *)

\* new Node(key, value, sortedMap): no children, so depth 1, nodeCount 1, balanceFactor 0
NewNode(key, value, sortedMap) ==
    [key |-> key, value |-> value, sortedMap |-> sortedMap,
     depth |-> 1, nodeCount |-> 1, balanceFactor |-> 0,
     left |-> Nil, right |-> Nil]

\* c?.depth ?? 0 and c?.nodeCount ?? 0
depthOf(h, c) == IF c = Nil THEN 0 ELSE h[c].depth
nodeCountOf(h, c) == IF c = Nil THEN 0 ELSE h[c].nodeCount

calcDepth(h, n) == Max(depthOf(h, h[n].left), depthOf(h, h[n].right)) + 1
calcNodeCount(h, n) == nodeCountOf(h, h[n].left) + nodeCountOf(h, h[n].right) + 1
calcBalanceFactor(h, n) == depthOf(h, h[n].right) - depthOf(h, h[n].left)

update(h, n) ==
    [h EXCEPT ![n].depth = calcDepth(h, n),
              ![n].nodeCount = calcNodeCount(h, n),
              ![n].balanceFactor = calcBalanceFactor(h, n)]

updateBalanceFactor(h, n) == [h EXCEPT ![n].balanceFactor = calcBalanceFactor(h, n)]

\* the result of a helper that returns a subtree: the heap after it ran, the
\* node it returned, and whether it threw
Sub(h, r, err) == [h |-> h, r |-> r, err |-> err]

\* a rotateLeft that does not hand the left subtree of the right child over
\* to the node
rotateLeftDropsInner(h, n) ==
    LET right == h[n].right IN
    IF right = Nil THEN Sub(h, Nil, TRUE)
    ELSE LET h1 == [h EXCEPT ![n].right = Nil]
             h2 == [h1 EXCEPT ![right].left = n]
             h3 == update(h2, right)
             h4 == update(h3, n)
         IN Sub(h4, right, FALSE)

\* rotateLeft
rotateLeft(h, n) ==
    LET right == h[n].right IN
    IF right = Nil THEN Sub(h, Nil, TRUE)
    ELSE LET h1 == [h EXCEPT ![n].right = h[right].left]
             h2 == [h1 EXCEPT ![right].left = n]
             h3 == update(h2, right)
             h4 == update(h3, n)
         IN Sub(h4, right, FALSE)

rotateRight(h, n) ==
    LET left == h[n].left IN
    IF left = Nil THEN Sub(h, Nil, TRUE)
    ELSE LET h1 == [h EXCEPT ![n].left = h[left].right]
             h2 == [h1 EXCEPT ![left].right = n]
             h3 == update(h2, left)
             h4 == update(h3, n)
         IN Sub(h4, left, FALSE)

\* a balance that rotates the wrong way
balanceWrongWay(h, n) ==
    IF h[n].balanceFactor < 0 - 1 THEN rotateLeft(h, n)
    ELSE IF h[n].balanceFactor > 1 THEN rotateRight(h, n)
    ELSE Sub(h, n, FALSE)

\* balance
balance(h, n) ==
    IF h[n].balanceFactor < 0 - 1 THEN rotateRight(h, n)
    ELSE IF h[n].balanceFactor > 1 THEN rotateLeft(h, n)
    ELSE Sub(h, n, FALSE)

\* an emancipate that cuts the child links and keeps the owner
emancipateKeepsOwner(h, n) ==
    [h EXCEPT ![n].left = Nil, ![n].right = Nil]

\* emancipate
emancipate(h, n) ==
    [h EXCEPT ![n].sortedMap = Nil, ![n].left = Nil, ![n].right = Nil]

----------------------------------------------------------------------------
(* class SortedMap: private helpers *)

\* size getter
size(h, rt) == IF rt = Nil THEN 0 ELSE h[rt].nodeCount

\* an _iterator that yields the node before its left subtree
RECURSIVE iteratorNodeFirst(_, _)
iteratorNodeFirst(h, n) ==
    IF n = Nil THEN <<>>
    ELSE <<n>> \o iteratorNodeFirst(h, h[n].left) \o iteratorNodeFirst(h, h[n].right)

\* _iterator: the nodes of the subtree at n, in-order
RECURSIVE iterator(_, _)
iterator(h, n) ==
    IF n = Nil THEN <<>>
    ELSE iterator(h, h[n].left) \o <<n>> \o iterator(h, h[n].right)

\* _iteratorReversed
RECURSIVE iteratorReversed(_, _)
iteratorReversed(h, n) ==
    IF n = Nil THEN <<>>
    ELSE iteratorReversed(h, h[n].right) \o <<n>> \o iteratorReversed(h, h[n].left)

\* The generators _iterator and _iteratorReversed, stepped.  A generator runs
\* only when the caller asks for the next entry, and stops at its yield.  The
\* traversal is the stack of its suspended generator frames, innermost last;
\* a frame is on node `node' at position pc:
\*   "start"   called, its body not yet run
\*   "first"   inside the yield* of its first child
\*   "yield"   suspended at `yield node'
\*   "second"  inside the yield* of its second child
\* `status' is "none" before any traversal is begun, then "running", then
\* "done".  Two fields are a record of the past that the program does not
\* keep: `snapshot', the [key, value] pairs of the map when the traversal
\* began, in the order of the traversal, and `yielded', the pairs read from
\* the entries the traversal has yielded so far.
NoTraversal ==
    [status |-> "none", frames |-> <<>>, backward |-> FALSE,
     snapshot |-> <<>>, yielded |-> <<>>]

\* node.left for _iterator, node.right for _iteratorReversed, read from the
\* node when the frame gets there
firstChild(h, n, backward) == IF backward THEN h[n].right ELSE h[n].left
secondChild(h, n, backward) == IF backward THEN h[n].left ELSE h[n].right

\* next(): runs the frames of stack fs to the next yield.  out is the node
\* yielded, Nil when the outermost generator returns.
RECURSIVE resume(_, _, _)
resume(h, fs, backward) ==
    IF fs = <<>> THEN [frames |-> <<>>, out |-> Nil]
    ELSE LET top == fs[Len(fs)]
             rest == SubSeq(fs, 1, Len(fs) - 1)
             call(pc, child) ==
                 Append(Append(rest, [top EXCEPT !.pc = pc]),
                        [node |-> child, pc |-> "start"])
         IN CASE top.pc = "start" ->
                     IF top.node = Nil THEN resume(h, rest, backward)
                     ELSE resume(h, call("first", firstChild(h, top.node, backward)), backward)
              [] top.pc = "first" ->
                     [frames |-> Append(rest, [top EXCEPT !.pc = "yield"]), out |-> top.node]
              [] top.pc = "yield" ->
                     resume(h, call("second", secondChild(h, top.node, backward)), backward)
              [] top.pc = "second" -> resume(h, rest, backward)

\* the [key, value] pairs of the nodes of sequence s
pairsOf(h, s) == [i \in 1..Len(s) |-> <<h[s[i]].key, h[s[i]].value>>]

RECURSIVE getNodeFrom(_, _, _, _)
getNodeFrom(h, current, c, key) ==
    IF current = Nil THEN Nil
    ELSE LET cmp == compare(c, key, h[current].key) IN
         IF cmpLT(cmp) THEN getNodeFrom(h, h[current].left, c, key)
         ELSE IF cmpGT(cmp) THEN getNodeFrom(h, h[current].right, c, key)
         ELSE current

getNode(h, rt, c, key) == getNodeFrom(h, rt, c, key)

\* a getSmallestNode that looks no further than the left child of the root
getSmallestNodeOneStep(h, rt) ==
    IF rt = Nil THEN Nil ELSE IF h[rt].left # Nil THEN h[rt].left ELSE rt

\* getSmallestNode (getSmallestEntry): the loop, from the node `current'
RECURSIVE getSmallestNodeFrom(_, _)
getSmallestNodeFrom(h, current) ==
    IF h[current].left # Nil THEN getSmallestNodeFrom(h, h[current].left) ELSE current

getSmallestNode(h, rt) == IF rt = Nil THEN Nil ELSE getSmallestNodeFrom(h, rt)

\* getLargestNode (getLargestEntry): the loop, from the node `current'
RECURSIVE getLargestNodeFrom(_, _)
getLargestNodeFrom(h, current) ==
    IF h[current].right # Nil THEN getLargestNodeFrom(h, h[current].right) ELSE current

getLargestNode(h, rt) == IF rt = Nil THEN Nil ELSE getLargestNodeFrom(h, rt)

\* get(key): getEntry(key)?.value
get(h, rt, c, key) ==
    LET n == getNode(h, rt, c, key) IN IF n = Nil THEN Nil ELSE h[n].value

\* the result of _getNodeOrCompute: the subtree it returns, the node handed to
\* getNode, and the number of times compute was called
Ins(h, r, node, calls, err) ==
    [h |-> h, r |-> r, node |-> node, calls |-> calls, err |-> err]

RECURSIVE getNodeOrComputeRec(_, _, _, _, _, _)
getNodeOrComputeRec(h, n, c, m, key, value) ==
    IF n = Nil THEN
        LET h1 == Append(h, NewNode(key, value, m)) IN
        Ins(h1, Len(h1), Len(h1), 1, FALSE)
    ELSE
        LET cmp == compare(c, key, h[n].key) IN
        IF cmpLT(cmp) THEN
            LET sub == getNodeOrComputeRec(h, h[n].left, c, m, key, value) IN
            IF sub.err THEN sub
            ELSE LET h1 == [sub.h EXCEPT ![n].left = sub.r]
                     b == balance(update(h1, n), n)
                 IN Ins(b.h, b.r, sub.node, sub.calls, b.err)
        ELSE IF cmpGT(cmp) THEN
            LET sub == getNodeOrComputeRec(h, h[n].right, c, m, key, value) IN
            IF sub.err THEN sub
            ELSE LET h1 == [sub.h EXCEPT ![n].right = sub.r]
                     b == balance(update(h1, n), n)
                 IN Ins(b.h, b.r, sub.node, sub.calls, b.err)
        ELSE Ins(h, n, n, 0, FALSE)

\* a getNodeOrCompute that calls compute before it searches, and stores the
\* result in the entry it finds
getNodeOrComputeEager(h, rt, c, m, key, value) ==
    IF rt = Nil THEN
        LET h1 == Append(h, NewNode(key, value, m)) IN
        Ins(h1, Len(h1), Len(h1), 1, FALSE)
    ELSE LET res == getNodeOrComputeRec(h, rt, c, m, key, value) IN
         IF res.err THEN res
         ELSE [res EXCEPT !.h = [res.h EXCEPT ![res.node].value = value], !.calls = 1]

\* getNodeOrCompute: compute is the thunk returning `value'
getNodeOrCompute(h, rt, c, m, key, value) ==
    IF rt = Nil THEN
        LET h1 == Append(h, NewNode(key, value, m)) IN
        Ins(h1, Len(h1), Len(h1), 1, FALSE)
    ELSE getNodeOrComputeRec(h, rt, c, m, key, value)

\* the result of a _delete*Node helper: the subtree it returns, the node the
\* condition accepted (Nil if none), and the number of times the condition ran
Del(h, r, node, calls, err) ==
    [h |-> h, r |-> r, node |-> node, calls |-> calls, err |-> err]

\* a _deleteSmallestNode that does not emancipate the node it removes
RECURSIVE deleteSmallestNodeRecKeepsLinks(_, _, _)
deleteSmallestNodeRecKeepsLinks(h, n, ok) ==
    IF n = Nil THEN Del(h, Nil, Nil, 0, FALSE)
    ELSE IF h[n].left # Nil THEN
        LET sub == deleteSmallestNodeRecKeepsLinks(h, h[n].left, ok) IN
        IF sub.err THEN sub
        ELSE LET h1 == [sub.h EXCEPT ![n].left = sub.r]
                 b == balance(update(h1, n), n)
             IN Del(b.h, b.r, sub.node, sub.calls, b.err)
    ELSE IF ~ok THEN Del(h, n, Nil, 1, FALSE)
    ELSE Del(h, h[n].right, n, 1, FALSE)

\* ok: what the condition returns on the node it is given
RECURSIVE deleteSmallestNodeRec(_, _, _)
deleteSmallestNodeRec(h, n, ok) ==
    IF n = Nil THEN Del(h, Nil, Nil, 0, FALSE)
    ELSE IF h[n].left # Nil THEN
        LET sub == deleteSmallestNodeRec(h, h[n].left, ok) IN
        IF sub.err THEN sub
        ELSE LET h1 == [sub.h EXCEPT ![n].left = sub.r]
                 b == balance(update(h1, n), n)
             IN Del(b.h, b.r, sub.node, sub.calls, b.err)
    ELSE IF ~ok THEN Del(h, n, Nil, 1, FALSE)
    ELSE Del(emancipate(h, n), h[n].right, n, 1, FALSE)

\* a _deleteLargestNode that takes the right child of the node it removes, as
\* _deleteSmallestNode does, for the successor
RECURSIVE deleteLargestNodeRecTakesRight(_, _, _)
deleteLargestNodeRecTakesRight(h, n, ok) ==
    IF n = Nil THEN Del(h, Nil, Nil, 0, FALSE)
    ELSE IF h[n].right # Nil THEN
        LET sub == deleteLargestNodeRecTakesRight(h, h[n].right, ok) IN
        IF sub.err THEN sub
        ELSE LET h1 == [sub.h EXCEPT ![n].right = sub.r]
                 b == balance(update(h1, n), n)
             IN Del(b.h, b.r, sub.node, sub.calls, b.err)
    ELSE IF ~ok THEN Del(h, n, Nil, 1, FALSE)
    ELSE Del(emancipate(h, n), h[n].right, n, 1, FALSE)

RECURSIVE deleteLargestNodeRec(_, _, _)
deleteLargestNodeRec(h, n, ok) ==
    IF n = Nil THEN Del(h, Nil, Nil, 0, FALSE)
    ELSE IF h[n].right # Nil THEN
        LET sub == deleteLargestNodeRec(h, h[n].right, ok) IN
        IF sub.err THEN sub
        ELSE LET h1 == [sub.h EXCEPT ![n].right = sub.r]
                 b == balance(update(h1, n), n)
             IN Del(b.h, b.r, sub.node, sub.calls, b.err)
    ELSE IF ~ok THEN Del(h, n, Nil, 1, FALSE)
    ELSE Del(emancipate(h, n), h[n].left, n, 1, FALSE)

\* a match branch that forgets to hand the left subtree to the successor
deleteMatchedDropsLeft(h, n) ==
    IF h[n].left # Nil /\ h[n].right # Nil THEN
        LET sub == deleteSmallestNodeRec(h, h[n].right, TRUE)
            successor == sub.node
            h1 == [sub.h EXCEPT ![n].right = sub.r]
            h2 == [h1 EXCEPT ![successor].right = h1[n].right]
            b == balance(emancipate(update(h2, successor), n), successor)
        IN Del(b.h, b.r, n, 1, b.err)
    ELSE IF h[n].right # Nil THEN
        LET b == balance(emancipate(h, n), h[n].right) IN Del(b.h, b.r, n, 1, b.err)
    ELSE IF h[n].left # Nil THEN
        LET b == balance(emancipate(h, n), h[n].left) IN Del(b.h, b.r, n, 1, b.err)
    ELSE Del(emancipate(h, n), Nil, n, 1, FALSE)

\* the match branch of _deleteNode once the condition has accepted node n
deleteMatched(h, n) ==
    IF h[n].left # Nil /\ h[n].right # Nil THEN
        LET sub == deleteSmallestNodeRec(h, h[n].right, TRUE) IN
        IF sub.err THEN Del(sub.h, Nil, n, 1, TRUE)
        ELSE LET successor == sub.node
                 h1 == [sub.h EXCEPT ![n].right = sub.r]
                 h2 == [h1 EXCEPT ![successor].right = h1[n].right]
                 h3 == [h2 EXCEPT ![successor].left = h2[n].left]
                 h4 == update(h3, successor)
                 b == balance(emancipate(h4, n), successor)
             IN Del(b.h, b.r, n, 1, b.err)
    ELSE IF h[n].right # Nil THEN
        LET b == balance(emancipate(h, n), h[n].right) IN Del(b.h, b.r, n, 1, b.err)
    ELSE IF h[n].left # Nil THEN
        LET b == balance(emancipate(h, n), h[n].left) IN Del(b.h, b.r, n, 1, b.err)
    ELSE Del(emancipate(h, n), Nil, n, 1, FALSE)

RECURSIVE deleteNodeRec(_, _, _, _, _)
deleteNodeRec(h, n, c, key, ok) ==
    IF n = Nil THEN Del(h, Nil, Nil, 0, FALSE)
    ELSE
        LET cmp == compare(c, key, h[n].key) IN
        IF cmpLT(cmp) THEN
            LET sub == deleteNodeRec(h, h[n].left, c, key, ok) IN
            IF sub.err THEN sub
            ELSE LET h1 == [sub.h EXCEPT ![n].left = sub.r]
                     b == balance(update(h1, n), n)
                 IN Del(b.h, b.r, sub.node, sub.calls, b.err)
        ELSE IF cmpGT(cmp) THEN
            LET sub == deleteNodeRec(h, h[n].right, c, key, ok) IN
            IF sub.err THEN sub
            ELSE LET h1 == [sub.h EXCEPT ![n].right = sub.r]
                     b == balance(update(h1, n), n)
                 IN Del(b.h, b.r, sub.node, sub.calls, b.err)
        ELSE IF ~ok THEN Del(h, n, Nil, 1, FALSE)
        ELSE deleteMatched(h, n)

\* _emancipateAllNodes
RECURSIVE emancipateAllNodes(_, _)
emancipateAllNodes(h, n) ==
    IF n = Nil THEN h
    ELSE LET h1 == emancipateAllNodes(h, h[n].left)
             h2 == emancipateAllNodes(h1, h1[n].right)
         IN emancipate(h2, n)

\* a reverse() that swaps the children of the root alone
invertRootOnly(h, n) ==
    IF n = Nil THEN h
    ELSE updateBalanceFactor([h EXCEPT ![n].left = h[n].right, ![n].right = h[n].left], n)

\* an _invert that swaps without a temporary: both children become the old
\* right child
RECURSIVE invertNoTemp(_, _)
invertNoTemp(h, n) ==
    IF n = Nil THEN h
    ELSE LET h1 == [h EXCEPT ![n].left = h[n].right]
             h2 == updateBalanceFactor(h1, n)
         IN invertNoTemp(h2, h2[n].right)

\* _invert
RECURSIVE invert(_, _)
invert(h, n) ==
    IF n = Nil THEN h
    ELSE LET h1 == [h EXCEPT ![n].left = h[n].right, ![n].right = h[n].left]
             h2 == updateBalanceFactor(h1, n)
             h3 == invert(h2, h2[n].left)
         IN invert(h3, h3[n].right)

----------------------------------------------------------------------------
(* getRange *)

\* A bound of getRange: undefined, a bare key, an array [key, type] whose
\* type is "inclusive", "exclusive" or left out (undefined), or a function.
NoBound == [kind |-> "undefined", key |-> Nil, type |-> "undefined", accepts |-> {}]
KeyBound(k) == [kind |-> "key", key |-> k, type |-> "undefined", accepts |-> {}]
ArrayBound(k, t) == [kind |-> "array", key |-> k, type |-> t, accepts |-> {}]
\* a bound given as a function key -> boolean: the predicate that answers true
\* on the keys of S
FunctionBound(S) == [kind |-> "function", key |-> Nil, type |-> "undefined", accepts |-> S]

BoundsOver(keys) ==
    {NoBound} \cup { KeyBound(k) : k \in keys }
              \cup { ArrayBound(k, t) : k \in keys,
                                        t \in {"undefined", "inclusive", "exclusive"} }

\* a tooSmall that takes every array bound as inclusive
tooSmallInclusive(c, min, key) ==
    IF min.kind = "undefined" THEN FALSE
    ELSE IF min.kind = "function" THEN key \notin min.accepts
    ELSE cmpLT(compare(c, key, min.key))

\* the tooSmall flag recur computes for a node with key `key'
tooSmall(c, min, key) ==
    IF min.kind = "undefined" THEN FALSE
    ELSE IF min.kind = "function" THEN key \notin min.accepts
    ELSE IF min.kind = "array" THEN
        LET cmp == compare(c, key, min.key) IN
        IF min.type = "exclusive" THEN cmpLE(cmp) ELSE cmpLT(cmp)
    ELSE cmpLT(compare(c, key, min.key))

\* a tooBig that never asks a function bound
tooBigSkipsFunction(c, max, key) ==
    IF max.kind = "undefined" \/ max.kind = "function" THEN FALSE
    ELSE IF max.kind = "array" THEN
        LET cmp == compare(c, key, max.key) IN
        IF max.type = "exclusive" THEN cmpGE(cmp) ELSE cmpGT(cmp)
    ELSE cmpGT(compare(c, key, max.key))

\* the tooBig flag recur computes for a node with key `key'
tooBig(c, max, key) ==
    IF max.kind = "undefined" THEN FALSE
    ELSE IF max.kind = "function" THEN key \notin max.accepts
    ELSE IF max.kind = "array" THEN
        LET cmp == compare(c, key, max.key) IN
        IF max.type = "exclusive" THEN cmpGE(cmp) ELSE cmpGT(cmp)
    ELSE cmpGT(compare(c, key, max.key))

\* recur: the nodes the generator yields for the subtree at node
RECURSIVE recur(_, _, _, _, _, _)
recur(h, node, c, min, max, reversed) ==
    IF node = Nil THEN <<>>
    ELSE
        LET small == tooSmall(c, min, h[node].key)
            big == tooBig(c, max, h[node].key)
            l == IF ~small THEN recur(h, h[node].left, c, min, max, reversed) ELSE <<>>
            r == IF ~big THEN recur(h, h[node].right, c, min, max, reversed) ELSE <<>>
            self == IF ~big /\ ~small THEN <<node>> ELSE <<>>
        IN IF reversed THEN r \o self \o l ELSE l \o self \o r

\* getRange(min, max, {reversed}), iterated to the end
getRange(h, rt, c, min, max, reversed) == recur(h, rt, c, min, max, reversed)

----------------------------------------------------------------------------
(* The heap: reachability and canonical layout *)

\* the nodes of the trees of all maps, map by map, each in-order
RECURSIVE treeNodes(_, _, _)
treeNodes(h, rt, m) ==
    IF m > Len(rt) THEN <<>> ELSE iterator(h, rt[m]) \o treeNodes(h, rt, m + 1)

InSeq(s, x) == \E i \in 1..Len(s) : s[i] = x

\* order, then those of the nodes of frames i.. that are not in it
RECURSIVE withFrames(_, _, _)
withFrames(order, fs, i) ==
    IF i > Len(fs) THEN order
    ELSE withFrames(IF fs[i].node = Nil \/ InSeq(order, fs[i].node) THEN order
                    ELSE Append(order, fs[i].node), fs, i + 1)

\* the objects still reachable: the trees' nodes, then the held entry, then
\* the nodes the frames of the traversal are on
reachable(h, rt, e, cur) ==
    LET t == treeNodes(h, rt, 1) IN
    withFrames(IF e = Nil \/ InSeq(t, e) THEN t ELSE Append(t, e), cur.frames, 1)

\* the new name of object x under the layout `order'
renamed(order, x) ==
    IF x = Nil \/ ~InSeq(order, x) THEN Nil
    ELSE CHOOSE i \in 1..Len(order) : order[i] = x

\* The heap laid out in `order', every reference renamed.  An object that is
\* in no tree is an entry the caller holds after its removal: the program can
\* still read its key, its value and its owner, and never again its cached
\* depth, nodeCount and balanceFactor, which are laid out as those of a
\* childless node.
collect(h, order, inTrees) ==
    [i \in 1..Len(order) |->
        IF InSeq(inTrees, order[i])
        THEN [h[order[i]] EXCEPT !.left = renamed(order, @), !.right = renamed(order, @)]
        ELSE NewNode(h[order[i]].key, h[order[i]].value, h[order[i]].sortedMap)]

\* the number of nodes in the trees of all maps
treeSize(h, rt) == Len(treeNodes(h, rt, 1))

----------------------------------------------------------------------------
(* class SortedMap: public methods, as functions of the heap *)

\* what a delete condition is: not supplied, or a predicate that answers
\* true or false on the entry it is given
Conds == {"none", "true", "false"}

\* condition(n) for the condition parameter of deleteNode and its siblings;
\* when none is supplied the default is returns(true)
condition(cond) == cond # "false"

\* a set that never overwrites the entry it finds
setKeepsOld(h, rt, c, m, key, value, replace) ==
    getNodeOrCompute(h, rt, c, m, key, value)

\* set(key, value, replace): r is the new root, node the entry returned
set(h, rt, c, m, key, value, replace) ==
    LET res == getNodeOrCompute(h, rt, c, m, key, value)
        computed == res.calls > 0
    IN IF ~res.err /\ ~computed /\ replace
       THEN [res EXCEPT !.h = [res.h EXCEPT ![res.node].key = key,
                                            ![res.node].value = value]]
       ELSE res

\* deleteNode(key, condition): r is the new root, node the entry returned
deleteNode(h, rt, c, key, cond) == deleteNodeRec(h, rt, c, key, condition(cond))

deleteSmallestNode(h, rt, cond) == deleteSmallestNodeRec(h, rt, condition(cond))

deleteLargestNode(h, rt, cond) == deleteLargestNodeRec(h, rt, condition(cond))

\* a reKey that does not ask whose entry it is given
reKeyAnyOwner(h, c, m, entry, newKey) ==
    ~cmpNQ(compare(c, newKey, h[entry].key))

\* reKey(entry, newKey): whether the key is replaced
reKey(h, c, m, entry, newKey) ==
    /\ h[entry].sortedMap = m
    /\ ~cmpNQ(compare(c, newKey, h[entry].key))

\* a reValue that accepts the entry of any map
reValueAnyOwner(h, m, entry) == h[entry].sortedMap # Nil

\* reValue(entry, newValue): whether the value is replaced
reValue(h, m, entry) == h[entry].sortedMap = m

\* a clear that only discards the root
clearKeepsNodes(h, rt) == [h |-> h, r |-> Nil]

\* clear(): the heap it leaves and the new root
clear(h, rt) == [h |-> emancipateAllNodes(h, rt), r |-> Nil]

\* reverse(): the heap it leaves, the root and the new comparator
reverse(h, rt, c) == [h |-> invert(h, rt), r |-> rt, c |-> reverseComparator(c)]

----------------------------------------------------------------------------
(* Calls *)

\* The state after a call on map m that left the heap h and returned the
\* subtree rt to be stored in root, the caller now holding the entry e (Nil
\* for none).  A call that threw has not assigned root.
\* the heap h with roots rt, held entry e and traversal cur becomes the state
Layout(h, rt, e, cur) ==
    LET order == reachable(h, rt, e, cur)
    IN /\ nodes' = collect(h, order, treeNodes(h, rt, 1))
       /\ root' = [i \in 1..Len(rt) |-> renamed(order, rt[i])]
       /\ held' = renamed(order, e)
       /\ cursor' = [cur EXCEPT !.frames =
                         [i \in 1..Len(cur.frames) |->
                             [cur.frames[i] EXCEPT !.node = renamed(order, @)]]]

Return(m, h, rt, err, e) ==
    Layout(h, IF err THEN root ELSE [root EXCEPT ![m] = rt], e, cursor)

Set(m, key, value, replace) ==
    LET res == set(nodes, root[m], comparator[m], m, key, value, replace)
    IN /\ Return(m, res.h, res.r, res.err, held)
       /\ UNCHANGED comparator

\* getEntryOrCompute returns the entry and getOrCompute its value
GetEntryOrCompute(m, key, value) ==
    LET res == getNodeOrCompute(nodes, root[m], comparator[m], m, key, value)
    IN /\ Return(m, res.h, res.r, res.err, held)
       /\ UNCHANGED comparator

Delete(m, key, cond) ==
    LET res == deleteNode(nodes, root[m], comparator[m], key, cond)
    IN /\ Return(m, res.h, res.r, res.err, held)
       /\ UNCHANGED comparator

DeleteSmallest(m, cond) ==
    LET res == deleteSmallestNode(nodes, root[m], cond)
    IN /\ Return(m, res.h, res.r, res.err, held)
       /\ UNCHANGED comparator

DeleteLargest(m, cond) ==
    LET res == deleteLargestNode(nodes, root[m], cond)
    IN /\ Return(m, res.h, res.r, res.err, held)
       /\ UNCHANGED comparator

\* getEntry(key): the caller holds on to the entry returned
GetEntry(m, key) ==
    /\ Return(m, nodes, root[m], FALSE, getNode(nodes, root[m], comparator[m], key))
    /\ UNCHANGED comparator

\* reKey(entry, newKey) on the entry the caller holds
ReKey(m, newKey) ==
    /\ held # Nil
    /\ nodes' = IF reKey(nodes, comparator[m], m, held, newKey)
                THEN [nodes EXCEPT ![held].key = newKey] ELSE nodes
    /\ UNCHANGED <<root, comparator, held, cursor>>

\* reValue(entry, newValue) on the entry the caller holds
ReValue(m, newValue) ==
    /\ held # Nil
    /\ nodes' = IF reValue(nodes, m, held)
                THEN [nodes EXCEPT ![held].value = newValue] ELSE nodes
    /\ UNCHANGED <<root, comparator, held, cursor>>

\* clear()
Clear(m) ==
    LET res == clear(nodes, root[m])
    IN /\ Return(m, res.h, res.r, FALSE, held)
       /\ UNCHANGED comparator

\* reverse()
Reverse(m) ==
    LET res == reverse(nodes, root[m], comparator[m])
    IN /\ Return(m, res.h, res.r, FALSE, held)
       /\ comparator' = [comparator EXCEPT ![m] = res.c]

\* map[Symbol.iterator]() and map.reversed()[Symbol.iterator](): the
\* generator is called with this.root and none of its body runs yet
Begin(m, backward) ==
    /\ Layout(nodes, root, held,
              [status |-> "running",
               frames |-> <<[node |-> root[m], pc |-> "start"]>>,
               backward |-> backward,
               snapshot |-> pairsOf(nodes, IF backward THEN iteratorReversed(nodes, root[m])
                                           ELSE iterator(nodes, root[m])),
               yielded |-> <<>>])
    /\ UNCHANGED comparator

\* next() on the traversal: the caller reads key and value of the entry it
\* is given
Step ==
    /\ cursor.status = "running"
    /\ LET r == resume(nodes, cursor.frames, cursor.backward) IN
       Layout(nodes, root, held,
              IF r.out = Nil
              THEN [cursor EXCEPT !.status = "done", !.frames = <<>>]
              ELSE [cursor EXCEPT !.frames = r.frames,
                                  !.yielded = Append(@, <<nodes[r.out].key, nodes[r.out].value>>)])
    /\ UNCHANGED comparator

----------------------------------------------------------------------------
(* Specifications *)

\* new SortedMap(keyOrder)
Init ==
    /\ nodes = <<>>
    /\ root = <<Nil>>
    /\ comparator = <<1>>
    /\ held = Nil
    /\ cursor = NoTraversal

\* the calls that insert, delete, reverse and clear, with keys from `keys'
Mutate(keys, values) ==
    \/ \E m \in Maps, key \in keys, value \in values, replace \in BOOLEAN :
           Set(m, key, value, replace)
    \/ \E m \in Maps, key \in keys, value \in values : GetEntryOrCompute(m, key, value)
    \/ \E m \in Maps, key \in keys, cond \in Conds : Delete(m, key, cond)
    \/ \E m \in Maps, cond \in Conds : DeleteSmallest(m, cond)
    \/ \E m \in Maps, cond \in Conds : DeleteLargest(m, cond)
    \/ \E m \in Maps : Clear(m)
    \/ \E m \in Maps : Reverse(m)

\* any sequence of calls on one map, the caller holding on to no entry
Next ==
    /\ Mutate(Keys, Values)
    /\ treeSize(nodes', root') <= MaxNodes

Spec == Init /\ [][Next]_vars

\* The same for the range queries, which read no value and compare keys by
\* the comparator alone: one value, and no two keys that compare equal.
KeysRange == 1..MaxKeyRange

NextRange ==
    /\ Mutate(KeysRange, {1})
    /\ treeSize(nodes', root') <= MaxNodesRange

SpecRange == Init /\ [][NextRange]_vars

\* the same with a caller that holds on to an entry and uses it later
KeysHeld == KeysTo(MaxKeyHeld)

NextHeld ==
    /\ \/ Mutate(KeysHeld, Values)
       \/ \E m \in Maps, key \in KeysHeld : GetEntry(m, key)
       \/ \E m \in Maps, newKey \in KeysHeld : ReKey(m, newKey)
       \/ \E m \in Maps, newValue \in Values : ReValue(m, newValue)
    /\ treeSize(nodes', root') <= MaxNodesHeld

SpecHeld == Init /\ [][NextHeld]_vars

\* Two maps A and B side by side, both built with the same order: the caller
\* takes its entries from A and hands them to reKey and reValue of either map.
A == 1
B == 2

\* new SortedMap(keyOrder), twice
InitTwo ==
    /\ nodes = <<>>
    /\ root = <<Nil, Nil>>
    /\ comparator = <<1, 1>>
    /\ held = Nil
    /\ cursor = NoTraversal

KeysTwo == KeysTo(MaxKeyTwo)

NextTwo ==
    /\ \/ Mutate(KeysTwo, Values)
       \/ \E key \in KeysTwo : GetEntry(A, key)
       \/ \E m \in Maps, newKey \in KeysTwo : ReKey(m, newKey)
       \/ \E m \in Maps, newValue \in Values : ReValue(m, newValue)
    /\ treeSize(nodes', root') <= MaxNodesTwo

SpecTwo == InitTwo /\ [][NextTwo]_vars

\* One map and a caller that begins traversals and steps through them, with
\* calls on the map between the steps.  One value; a traversal is followed
\* up to MaxYield entries.
KeysIter == 1..MaxKeyIter

NextIter ==
    /\ \/ Mutate(KeysIter, {1})
       \/ \E m \in Maps, backward \in BOOLEAN : Begin(m, backward)
       \/ Step
    /\ treeSize(nodes', root') <= MaxNodesIter
    /\ Len(cursor'.yielded) <= MaxYield

SpecIter == Init /\ [][NextIter]_vars

----------------------------------------------------------------------------
(* What the properties measure: the tree as it is, not as it is cached *)

\* the set of nodes of the subtree at n
RECURSIVE subtree(_, _)
subtree(h, n) ==
    IF n = Nil THEN {} ELSE {n} \cup subtree(h, h[n].left) \cup subtree(h, h[n].right)

\* the height of the subtree at n, 0 for an absent one
RECURSIVE height(_, _)
height(h, n) ==
    IF n = Nil THEN 0 ELSE 1 + Max(height(h, h[n].left), height(h, h[n].right))

\* search-tree order of the tree at rt under comparator c
ordered(h, rt, c) ==
    \A n \in subtree(h, rt) :
        /\ \A l \in subtree(h, h[n].left) : cmpLT(compare(c, h[l].key, h[n].key))
        /\ \A r \in subtree(h, h[n].right) : cmpGT(compare(c, h[r].key, h[n].key))

\* height balance of the tree at rt
balanced(h, rt) ==
    \A n \in subtree(h, rt) :
        height(h, h[n].right) - height(h, h[n].left) \in {0 - 1, 0, 1}

----------------------------------------------------------------------------
(* C1 *)

\* C1: after every public mutation, every node reachable from the root has
\* only smaller keys in its left subtree and only greater keys in its right
\* subtree, under the map's current comparator.
C1_SearchTreeOrder ==
    \A m \in Maps : ordered(nodes, root[m], comparator[m])

\* a reversed map of four entries whose cached size is wrong: rotations, a
\* reverse() and the calls before them have acted
C1_Witness ==
    \E m \in Maps :
        /\ comparator[m] = 0 - 1
        /\ Cardinality(subtree(nodes, root[m])) = 4
        /\ size(nodes, root[m]) # 4
        /\ height(nodes, root[m]) = 3

----------------------------------------------------------------------------
(* C2 *)

\* C2: after any sequence of set/getOrCompute/delete/deleteSmallest/
\* deleteLargest, every node reachable from the root has an actual balance
\* factor (height of right subtree minus height of left subtree) in {-1, 0, 1}.
C2_Balanced ==
    \A m \in Maps : comparator[m] = 1 => balanced(nodes, root[m])

----------------------------------------------------------------------------
(* C3 *)

\* C3: the map's size (the root's cached nodeCount, 0 when empty) equals the
\* number of entries of a full ascending traversal.
C3_SizeIsCount ==
    \A m \in Maps : size(nodes, root[m]) = Len(iterator(nodes, root[m]))

----------------------------------------------------------------------------
(* C4 *)

\* C4: after every public mutation, a node's owner (sortedMap) is this map if
\* and only if the node is reachable from this map's root.
C4_OwnerIffReachable ==
    \A m \in Maps : \A n \in 1..Len(nodes) :
        nodes[n].sortedMap = m <=> n \in subtree(nodes, root[m])

----------------------------------------------------------------------------
(* C5 *)

\* C5: for an entry the caller holds that is contained in map m, whatever was
\* inserted or deleted since the caller obtained it, reValue(entry, v) returns
\* true and afterwards get(entry.key) returns v.
C5_HeldEntryRevalued ==
    \A m \in Maps : \A v \in Values :
        (held # Nil /\ held \in subtree(nodes, root[m])) =>
            /\ reValue(nodes, m, held)
            /\ get([nodes EXCEPT ![held].value = v], root[m], comparator[m],
                   nodes[held].key) = v

----------------------------------------------------------------------------
(* C6 *)

\* whether key lies within the bounds: min <= key (min < key when exclusive)
\* and key <= max (key < max when exclusive)
within(c, min, max, key) ==
    /\ \/ min.kind = "undefined"
       \/ cmpGT(compare(c, key, min.key))
       \/ min.type # "exclusive" /\ compare(c, key, min.key) = 0
    /\ \/ max.kind = "undefined"
       \/ cmpLT(compare(c, key, max.key))
       \/ max.type # "exclusive" /\ compare(c, key, max.key) = 0

\* s yields each node once, and exactly those of `all' that `wanted' admits
yieldsExactly(s, all, wanted(_)) ==
    /\ \A i, j \in 1..Len(s) : s[i] = s[j] => i = j
    /\ \A i \in 1..Len(s) : s[i] \in all
    /\ \A n \in all : wanted(n) <=> InSeq(s, n)

\* the keys of s ascend strictly under c (descend when reversed)
inKeyOrder(h, s, c, reversed) ==
    \A i \in 1..(Len(s) - 1) :
        IF reversed THEN cmpGT(compare(c, h[s[i]].key, h[s[i + 1]].key))
        ELSE cmpLT(compare(c, h[s[i]].key, h[s[i + 1]].key))

\* the bounds tried: of every form, on every key the trees may hold
RangeBounds == BoundsOver(KeysRange)

\* C6: for every tree and every pair of bounds given as absent, a bare key,
\* [key], [key, "inclusive"] or [key, "exclusive"], getRange(min, max) yields
\* exactly the entries whose key lies within the bounds, each once, in
\* ascending key order, and in descending order when reversed.
C6_RangeIsExact ==
    \A m \in Maps :
        LET all == subtree(nodes, root[m]) IN
        \A min \in RangeBounds, max \in RangeBounds, reversed \in BOOLEAN :
            LET s == getRange(nodes, root[m], comparator[m], min, max, reversed)
                wanted(n) == within(comparator[m], min, max, nodes[n].key)
            IN /\ yieldsExactly(s, all, wanted)
               /\ inKeyOrder(nodes, s, comparator[m], reversed)

\* a map of four entries, the keys 1 to 4, on which an exclusive range leaves
\* out both of its ends and an inclusive one does not, and a range cuts off a
\* node that has a child inside the range
C6_Witness ==
    \E m \in Maps :
        /\ comparator[m] = 1
        /\ Cardinality(subtree(nodes, root[m])) = 4
        /\ Len(getRange(nodes, root[m], comparator[m],
                        ArrayBound(1, "exclusive"), ArrayBound(4, "exclusive"), FALSE)) = 2
        /\ Len(getRange(nodes, root[m], comparator[m],
                        KeyBound(2), ArrayBound(4, "inclusive"), TRUE)) = 3
        /\ \E n \in subtree(nodes, root[m]) :
               /\ tooSmall(comparator[m], KeyBound(2), nodes[n].key)
               /\ nodes[n].right # Nil

----------------------------------------------------------------------------
(* C7 *)

\* C7: for every key k and value v, in every reachable state, right after
\* set(k, v) (replace defaulting to true) get(k) returns v, whether k was
\* absent or present before.
C7_SetThenGet ==
    \A m \in Maps : \A k \in Keys, v \in Values :
        LET res == set(nodes, root[m], comparator[m], m, k, v, TRUE) IN
        /\ ~res.err
        /\ get(res.h, res.r, comparator[m], k) = v

\* a map of three entries in which set(k, 1) overwrites an entry stored under
\* another key that compares equal to k and holding another value, and in
\* which set of an absent key ends with a rotation at the root
C7_Witness ==
    \E m \in Maps :
        /\ Cardinality(subtree(nodes, root[m])) = 3
        /\ \E k \in Keys :
               LET n == getNode(nodes, root[m], comparator[m], k) IN
               n # Nil /\ nodes[n].key # k /\ nodes[n].value # 1
        /\ \E k \in Keys :
               LET res == set(nodes, root[m], comparator[m], m, k, 1, TRUE) IN
               res.calls = 1 /\ res.r # root[m] /\ res.r # res.node

----------------------------------------------------------------------------
(* C8 *)

\* C8: delete(k) without a condition, when k is present, returns the entry
\* that held k (the one getEntry(k) returned before the call), its key and
\* value still readable; afterwards get(k) is absent, a full traversal has
\* exactly one entry fewer, and every other entry is still present with its
\* previous value.
C8_DeleteRemovesOne ==
    \A m \in Maps : \A k \in Keys :
        LET c == comparator[m]
            n == getNode(nodes, root[m], c, k)
            res == deleteNode(nodes, root[m], c, k, "none")
            before == iterator(nodes, root[m])
            after == iterator(res.h, res.r)
        IN n # Nil =>
            /\ ~res.err
            /\ res.node = n
            /\ res.h[n].key = nodes[n].key /\ res.h[n].value = nodes[n].value
            /\ get(res.h, res.r, c, k) = Nil
            /\ Len(after) = Len(before) - 1
            /\ \A x \in subtree(nodes, root[m]) \ {n} :
                   /\ InSeq(after, x)
                   /\ res.h[x].key = nodes[x].key /\ res.h[x].value = nodes[x].value
                   /\ get(res.h, res.r, c, nodes[x].key) = nodes[x].value

\* a map of four entries in which delete(k) removes a node that has two
\* children and whose successor is not its right child, so that
\* _deleteSmallestNode descends before the successor is spliced in
C8_Witness ==
    \E m \in Maps : \E k \in Keys :
        LET n == getNode(nodes, root[m], comparator[m], k) IN
        /\ Cardinality(subtree(nodes, root[m])) = 4
        /\ n # Nil
        /\ nodes[n].left # Nil /\ nodes[n].right # Nil
        /\ nodes[nodes[n].right].left # Nil
        /\ deleteNode(nodes, root[m], comparator[m], k, "none").node = n

----------------------------------------------------------------------------
(* C9 *)

\* the tree at r1 in h1 has the structure, the entries and the size of the
\* tree at r2 in h2
sameTree(h1, r1, h2, r2) ==
    /\ r1 = r2
    /\ size(h1, r1) = size(h2, r2)
    /\ subtree(h1, r1) = subtree(h2, r2)
    /\ \A n \in subtree(h2, r2) :
           /\ h1[n].left = h2[n].left /\ h1[n].right = h2[n].right
           /\ h1[n].key = h2[n].key /\ h1[n].value = h2[n].value

\* C9: delete(k, condition) evaluates condition exactly once when k is
\* present and never when k is absent; when condition returns false, delete
\* reports absent and leaves the tree unchanged (same structure, same
\* entries, same size).
C9_ConditionGatesDelete ==
    \A m \in Maps : \A k \in Keys :
        LET c == comparator[m]
            present == getNode(nodes, root[m], c, k) # Nil
            yes == deleteNode(nodes, root[m], c, k, "true")
            no == deleteNode(nodes, root[m], c, k, "false")
        IN /\ yes.calls = IF present THEN 1 ELSE 0
           /\ no.calls = IF present THEN 1 ELSE 0
           /\ ~no.err
           /\ no.node = Nil
           /\ sameTree(no.h, no.r, nodes, root[m])

----------------------------------------------------------------------------
(* C10 *)

\* C10: when key k is already present, set(k, v, true) overwrites the entry's
\* key and value in place without restructuring: every node's left and right
\* child and the size are the same before and after the call, and the entry
\* returned is the one that was there.
C10_OverwriteInPlace ==
    \A m \in Maps : \A k \in Keys, v \in Values :
        LET c == comparator[m]
            n == getNode(nodes, root[m], c, k)
            res == set(nodes, root[m], c, m, k, v, TRUE)
        IN n # Nil =>
            /\ ~res.err
            /\ res.node = n
            /\ res.h[n].key = k /\ res.h[n].value = v
            /\ res.r = root[m]
            /\ size(res.h, res.r) = size(nodes, root[m])
            /\ \A x \in subtree(nodes, root[m]) :
                   res.h[x].left = nodes[x].left /\ res.h[x].right = nodes[x].right

----------------------------------------------------------------------------
(* C11 *)

\* C11: when key k is already present with value v0, set(k, v, false) leaves
\* the entry's stored key and value unchanged (get(k) still returns v0), does
\* not change the size, and returns the existing entry; repeating the call
\* changes nothing further.
C11_KeepExisting ==
    \A m \in Maps : \A k \in Keys, v \in Values :
        LET c == comparator[m]
            n == getNode(nodes, root[m], c, k)
            res == set(nodes, root[m], c, m, k, v, FALSE)
            again == set(res.h, res.r, c, m, k, v, FALSE)
        IN n # Nil =>
            /\ ~res.err
            /\ res.node = n
            /\ res.h[n].key = nodes[n].key /\ res.h[n].value = nodes[n].value
            /\ get(res.h, res.r, c, k) = nodes[n].value
            /\ size(res.h, res.r) = size(nodes, root[m])
            /\ ~again.err
            /\ again.node = n
            /\ sameTree(again.h, again.r, res.h, res.r)

----------------------------------------------------------------------------
(* C12 *)

\* C12: getOrCompute(k, compute) and getEntryOrCompute(k, compute) call
\* compute exactly once when k is absent (its result becomes the stored value
\* and is returned, and exactly one entry is added) and not at all when k is
\* present, in which case the existing value is returned and left unchanged.
C12_ComputeOnlyWhenAbsent ==
    \A m \in Maps : \A k \in Keys, v \in Values :
        LET c == comparator[m]
            n == getNode(nodes, root[m], c, k)
            res == getNodeOrCompute(nodes, root[m], c, m, k, v)
            before == iterator(nodes, root[m])
            after == iterator(res.h, res.r)
        IN /\ ~res.err
           /\ \A x \in subtree(nodes, root[m]) :
                  /\ InSeq(after, x)
                  /\ res.h[x].key = nodes[x].key /\ res.h[x].value = nodes[x].value
           /\ IF n = Nil
              THEN /\ res.calls = 1
                   /\ res.node \notin subtree(nodes, root[m])
                   /\ res.h[res.node].key = k /\ res.h[res.node].value = v
                   /\ Len(after) = Len(before) + 1
                   /\ InSeq(after, res.node)
                   /\ get(res.h, res.r, c, k) = v
              ELSE /\ res.calls = 0
                   /\ res.node = n
                   /\ res.h[n].value = nodes[n].value
                   /\ Len(after) = Len(before)

\* a map of two entries in which getOrCompute finds an entry stored with a
\* value other than the one compute would return, and in which getOrCompute
\* of an absent key adds an entry below a node that is then rotated
C12_Witness ==
    \E m \in Maps :
        /\ Cardinality(subtree(nodes, root[m])) = 2
        /\ \E k \in Keys :
               LET res == getNodeOrCompute(nodes, root[m], comparator[m], m, k, 1) IN
               res.calls = 0 /\ res.h[res.node].value = 2
        /\ \E k \in Keys :
               LET res == getNodeOrCompute(nodes, root[m], comparator[m], m, k, 1) IN
               res.calls = 1 /\ res.r # root[m]

----------------------------------------------------------------------------
(* C13 *)

\* the map after set(keys[i], 1), ..., set(keys[Len(keys)], 1) on the map st
RECURSIVE setAll(_, _, _)
setAll(st, keys, i) ==
    IF i > Len(keys) THEN st
    ELSE LET res == set(st.h, st.r, 1, 1, keys[i], 1, TRUE) IN
         setAll([h |-> res.h, r |-> res.r, err |-> st.err \/ res.err], keys, i + 1)

\* the keys of the entries s, in the order of s
keysOf(h, s) == [i \in 1..Len(s) |-> h[s[i]].key]

\* after inserting 5,3,8,1,4,7,9, two deleteSmallest() calls remove 1 then 3
\* and leave 4,5,7,8,9
deleteSmallestExample ==
    LET st == setAll([h |-> <<>>, r |-> Nil, err |-> FALSE], <<5, 3, 8, 1, 4, 7, 9>>, 1)
        d1 == deleteSmallestNode(st.h, st.r, "none")
        d2 == deleteSmallestNode(d1.h, d1.r, "none")
    IN /\ ~st.err /\ ~d1.err /\ ~d2.err
       /\ keysOf(st.h, iterator(st.h, st.r)) = <<1, 3, 4, 5, 7, 8, 9>>
       /\ d1.node # Nil /\ d1.h[d1.node].key = 1
       /\ d2.node # Nil /\ d2.h[d2.node].key = 3
       /\ keysOf(d2.h, iterator(d2.h, d2.r)) = <<4, 5, 7, 8, 9>>

\* the node of the tree at rt whose key is the least under c
leastNode(h, rt, c) ==
    CHOOSE n \in subtree(h, rt) :
        \A x \in subtree(h, rt) \ {n} : cmpLT(compare(c, h[n].key, h[x].key))

\* the node of the tree at rt whose key is the greatest under c
greatestNode(h, rt, c) ==
    CHOOSE n \in subtree(h, rt) :
        \A x \in subtree(h, rt) \ {n} : cmpGT(compare(c, h[n].key, h[x].key))

\* the entries of s keep their key and value from heap h1 to heap h2
sameEntries(h1, h2, s) ==
    \A i \in 1..Len(s) : h2[s[i]].key = h1[s[i]].key /\ h2[s[i]].value = h1[s[i]].value

\* C13: on a non-empty map deleteSmallest() removes and returns exactly the
\* entry with the least key under the current comparator, and deleteLargest()
\* the entry with the greatest key, leaving every other entry in place (the
\* example: after inserting 5,3,8,1,4,7,9, two deleteSmallest() calls remove 1
\* then 3 and leave 4,5,7,8,9); a condition that is supplied is evaluated once,
\* and if it returns false nothing is removed and absent is returned.
C13_DeleteExtreme ==
    /\ deleteSmallestExample
    /\ \A m \in Maps :
        LET c == comparator[m]
            before == iterator(nodes, root[m])
        IN root[m] # Nil =>
            /\ \E n \in subtree(nodes, root[m]) :
                   \A x \in subtree(nodes, root[m]) \ {n} :
                       cmpLT(compare(c, nodes[n].key, nodes[x].key))
            /\ \A cond \in {"none", "true"} :
                   LET s == deleteSmallestNode(nodes, root[m], cond)
                       l == deleteLargestNode(nodes, root[m], cond)
                   IN /\ ~s.err /\ ~l.err
                      /\ s.calls = 1 /\ l.calls = 1
                      /\ s.node = leastNode(nodes, root[m], c)
                      /\ l.node = greatestNode(nodes, root[m], c)
                      /\ iterator(s.h, s.r) = Tail(before)
                      /\ iterator(l.h, l.r) = SubSeq(before, 1, Len(before) - 1)
                      /\ sameEntries(nodes, s.h, before)
                      /\ sameEntries(nodes, l.h, before)
            /\ LET s == deleteSmallestNode(nodes, root[m], "false")
                   l == deleteLargestNode(nodes, root[m], "false")
               IN /\ ~s.err /\ ~l.err
                  /\ s.calls = 1 /\ l.calls = 1
                  /\ s.node = Nil /\ l.node = Nil
                  /\ iterator(s.h, s.r) = before
                  /\ iterator(l.h, l.r) = before
                  /\ sameEntries(nodes, s.h, before)
                  /\ sameEntries(nodes, l.h, before)

\* a reversed map of four entries in which deleteSmallest() removes a node
\* other than the root and the root it leaves is another node than before: a
\* rotation ran on the way back
C13_Witness ==
    \E m \in Maps :
        LET s == deleteSmallestNode(nodes, root[m], "none") IN
        /\ comparator[m] = 0 - 1
        /\ Cardinality(subtree(nodes, root[m])) = 4
        /\ s.node # Nil /\ s.node # root[m]
        /\ s.r # root[m]

----------------------------------------------------------------------------
(* C14 *)

\* C14: once the entry the caller holds has been removed from its map by
\* delete, deleteSmallest, deleteLargest or clear, reKey and reValue called
\* with it return false (and so change neither the entry nor the map), also
\* when an equal key has been inserted again afterwards.
C14_RemovedEntryRejected ==
    \A m \in Maps :
        (held # Nil /\ held \notin subtree(nodes, root[m])) =>
            /\ ~reValue(nodes, m, held)
            /\ \A newKey \in KeysHeld : ~reKey(nodes, comparator[m], m, held, newKey)

\* the caller holds an entry that has been removed, and the map again holds
\* an entry with the very same key, next to another one
C14_Witness ==
    \E m \in Maps :
        /\ held # Nil /\ held \notin subtree(nodes, root[m])
        /\ Cardinality(subtree(nodes, root[m])) = 2
        /\ \E n \in subtree(nodes, root[m]) : nodes[n].key = nodes[held].key

----------------------------------------------------------------------------
(* C15 *)

\* C15: for two distinct maps A and B, an entry obtained from A always makes
\* B.reKey(entry, k) and B.reValue(entry, v) return false (and so leave the
\* entry and both maps unchanged), even when B contains an entry with an
\* equal key.
C15_OtherMapRejects ==
    held # Nil =>
        /\ ~reValue(nodes, B, held)
        /\ \A newKey \in KeysTwo : ~reKey(nodes, comparator[B], B, held, newKey)

\* the caller holds an entry that is in A and that A accepts, while B holds
\* an entry with the very same key
C15_Witness ==
    /\ held # Nil /\ held \in subtree(nodes, root[A])
    /\ reValue(nodes, A, held)
    /\ \E n \in subtree(nodes, root[B]) : nodes[n].key = nodes[held].key

----------------------------------------------------------------------------
(* C16 *)

\* C16: M.reKey(entry, newKey) returns true and stores newKey in the entry
\* exactly when the entry's owner is M and comparator(newKey, entry.key)
\* reports equal; in every other case it leaves the key unchanged; in no case
\* does it change anything else: the roots, the comparators, any child link,
\* any value, any other key.
C16_ReKeyGate ==
    [][\A m \in Maps, newKey \in KeysTwo :
           ReKey(m, newKey) =>
               LET accepted == /\ nodes[held].sortedMap = m
                               /\ compare(comparator[m], newKey, nodes[held].key) = 0
               IN /\ reKey(nodes, comparator[m], m, held, newKey) = accepted
                  /\ nodes' = [nodes EXCEPT ![held].key = IF accepted THEN newKey ELSE @]
                  /\ UNCHANGED <<root, comparator, held>>]_vars

\* the caller holds an entry of A stored under key -1, the map holds another
\* entry besides: reKey(entry, 1) is accepted, reKey(entry, 2) is not, and B
\* accepts neither
C16_Witness ==
    /\ held # Nil /\ held \in subtree(nodes, root[A])
    /\ nodes[held].key = 0 - 1
    /\ Cardinality(subtree(nodes, root[A])) = 2
    /\ reKey(nodes, comparator[A], A, held, 1)
    /\ ~reKey(nodes, comparator[A], A, held, 2)
    /\ ~reKey(nodes, comparator[B], B, held, 1)

----------------------------------------------------------------------------
(* C17 *)

\* a predicate that, once it accepts a key, accepts every greater key under c
notTooSmall(S, c) ==
    \A a \in S, b \in KeysRange : cmpGT(compare(c, b, a)) => b \in S

\* a predicate that, once it accepts a key, accepts every smaller key under c
notTooBig(S, c) ==
    \A a \in S, b \in KeysRange : cmpLT(compare(c, b, a)) => b \in S

\* getRange(min, max) with the predicates S and T yields exactly the entries
\* of map m whose keys satisfy both, in key order
predicateRangeIsExact(m, S, T, reversed) ==
    LET s == getRange(nodes, root[m], comparator[m],
                      FunctionBound(S), FunctionBound(T), reversed)
        wanted(n) == nodes[n].key \in S /\ nodes[n].key \in T
    IN /\ yieldsExactly(s, subtree(nodes, root[m]), wanted)
       /\ inKeyOrder(nodes, s, comparator[m], reversed)

\* C17 as stated: for every tree and every pair of predicate bounds
\* min: key -> boolean and max: key -> boolean, getRange(min, max) yields
\* exactly the entries whose keys satisfy both predicates, in ascending key
\* order (descending if reversed).
C17_AnyPredicateRange ==
    \A m \in Maps : \A S \in SUBSET KeysRange, T \in SUBSET KeysRange :
        \A reversed \in BOOLEAN : predicateRangeIsExact(m, S, T, reversed)

\* C17 amended: the same for every pair of predicates that are monotone under
\* the map's comparator: min accepts every key greater than a key it accepts,
\* max accepts every key smaller than a key it accepts.
C17_MonotonePredicateRange ==
    \A m \in Maps : \A S \in SUBSET KeysRange, T \in SUBSET KeysRange :
        (notTooSmall(S, comparator[m]) /\ notTooBig(T, comparator[m])) =>
            \A reversed \in BOOLEAN : predicateRangeIsExact(m, S, T, reversed)

\* a reversed map of the keys 1 to 5 on which the predicates "at most 3" (as
\* min) and "at least 3" (as max) are monotone and yield one entry, and on
\* which a node that min turns away has a left subtree that is never visited
C17_Witness ==
    \E m \in Maps :
        /\ comparator[m] = 0 - 1
        /\ Cardinality(subtree(nodes, root[m])) = 5
        /\ notTooSmall(1..3, comparator[m]) /\ notTooBig(3..5, comparator[m])
        /\ Len(getRange(nodes, root[m], comparator[m],
                        FunctionBound(1..3), FunctionBound(3..5), FALSE)) = 1
        /\ \E n \in subtree(nodes, root[m]) :
               /\ tooSmall(comparator[m], FunctionBound(1..3), nodes[n].key)
               /\ nodes[n].left # Nil

----------------------------------------------------------------------------
(* C18 *)

\* C18: in every reachable state, reverse() followed by reverse() restores
\* the original ascending iteration order, the original tree structure (the
\* root and every node's left and right child) and the original lookup
\* behaviour (get returns the same result for every key as before).
C18_ReverseTwice ==
    \A m \in Maps :
        LET once == reverse(nodes, root[m], comparator[m])
            twice == reverse(once.h, once.r, once.c)
        IN /\ twice.r = root[m]
           /\ iterator(twice.h, twice.r) = iterator(nodes, root[m])
           /\ \A n \in subtree(nodes, root[m]) :
                  /\ twice.h[n].left = nodes[n].left /\ twice.h[n].right = nodes[n].right
                  /\ twice.h[n].key = nodes[n].key /\ twice.h[n].value = nodes[n].value
           /\ \A k \in Keys :
                  get(twice.h, twice.r, twice.c, k) = get(nodes, root[m], comparator[m], k)

\* a map of four entries, of height 3, with a node that has a left child and
\* no right one: one reverse() changes the child links of several nodes
C18_Witness ==
    \E m \in Maps :
        /\ Cardinality(subtree(nodes, root[m])) = 4
        /\ height(nodes, root[m]) = 3
        /\ \E n \in subtree(nodes, root[m]) \ {root[m]} :
               nodes[n].left # Nil /\ nodes[n].right = Nil
        /\ Cardinality({ n \in subtree(nodes, root[m]) :
               reverse(nodes, root[m], comparator[m]).h[n].left # nodes[n].left }) >= 2

----------------------------------------------------------------------------
(* C19 *)

\* the sequence s back to front
backwards(s) == [i \in 1..Len(s) |-> s[Len(s) + 1 - i]]

\* C19: after reverse(), default iteration yields exactly the sequence of
\* entries it yielded before, in reverse order; size is unchanged; every key
\* that was in the map is still found by get, with the same value; and the
\* tree is a search tree for the reversed comparator, so that a later set is
\* found by get, a later delete removes its entry and getRange without bounds
\* yields every entry.
C19_ReverseMirrors ==
    \A m \in Maps :
        LET c == comparator[m]
            res == reverse(nodes, root[m], c)
        IN /\ iterator(res.h, res.r) = backwards(iterator(nodes, root[m]))
           /\ size(res.h, res.r) = size(nodes, root[m])
           /\ sameEntries(nodes, res.h, iterator(nodes, root[m]))
           /\ \A k \in Keys : get(res.h, res.r, res.c, k) = get(nodes, root[m], c, k)
           /\ ordered(res.h, res.r, res.c)
           /\ inKeyOrder(res.h, iterator(res.h, res.r), res.c, FALSE)
           /\ getRange(res.h, res.r, res.c, NoBound, NoBound, FALSE) = iterator(res.h, res.r)
           /\ \A k \in Keys :
                  LET put == set(res.h, res.r, res.c, m, k, 1, TRUE)
                      del == deleteNode(res.h, res.r, res.c, k, "none")
                  IN /\ ~put.err /\ get(put.h, put.r, res.c, k) = 1
                     /\ ordered(put.h, put.r, res.c)
                     /\ ~del.err /\ get(del.h, del.r, res.c, k) = Nil
                     /\ del.node = getNode(nodes, root[m], c, k)
                     /\ ordered(del.h, del.r, res.c)

\* a map of three entries under the natural order, in a chain (the root has
\* one child, which has one child), so that the mirror image differs from the
\* tree at every level
C19_Witness ==
    \E m \in Maps :
        /\ comparator[m] = 1
        /\ Cardinality(subtree(nodes, root[m])) = 3
        /\ height(nodes, root[m]) = 3
        /\ reverse(nodes, root[m], comparator[m]).c = 0 - 1

----------------------------------------------------------------------------
(* C20 *)

----------------------------------------------------------------------------
(* C21 *)

\* reversed(), iterated to the end
reversed(h, rt) == iteratorReversed(h, rt)

\* keys(), values() and entries(), iterated to the end: each runs the default
\* iteration and yields the key, the value, the pair [key, value] of each entry
keys(h, rt) == LET it == iterator(h, rt) IN [i \in 1..Len(it) |-> h[it[i]].key]

values(h, rt) == LET it == iterator(h, rt) IN [i \in 1..Len(it) |-> h[it[i]].value]

entries(h, rt) ==
    LET it == iterator(h, rt) IN [i \in 1..Len(it) |-> <<h[it[i]].key, h[it[i]].value>>]

\* inserting 5,3,8,1,4,7,9 in that order yields 1,3,4,5,7,8,9
insertExample ==
    LET st == setAll([h |-> <<>>, r |-> Nil, err |-> FALSE], <<5, 3, 8, 1, 4, 7, 9>>, 1)
    IN /\ ~st.err
       /\ keys(st.h, st.r) = <<1, 3, 4, 5, 7, 8, 9>>
       /\ keysOf(st.h, reversed(st.h, st.r)) = <<9, 8, 7, 5, 4, 3, 1>>

\* C21: in every reachable state, default iteration yields every entry
\* exactly once in strictly ascending key order under the current comparator;
\* reversed() yields exactly the reverse of that sequence; keys(), values()
\* and entries() yield the keys, values and [key, value] pairs of that same
\* sequence (inserting 5,3,8,1,4,7,9 in that order yields 1,3,4,5,7,8,9).
C21_IterationAscending ==
    /\ insertExample
    /\ \A m \in Maps :
        LET it == iterator(nodes, root[m])
            every(n) == TRUE
        IN /\ yieldsExactly(it, subtree(nodes, root[m]), every)
           /\ inKeyOrder(nodes, it, comparator[m], FALSE)
           /\ reversed(nodes, root[m]) = backwards(it)
           /\ Len(keys(nodes, root[m])) = Len(it)
           /\ Len(values(nodes, root[m])) = Len(it)
           /\ Len(entries(nodes, root[m])) = Len(it)
           /\ \A i \in 1..Len(it) :
                  /\ keys(nodes, root[m])[i] = nodes[it[i]].key
                  /\ values(nodes, root[m])[i] = nodes[it[i]].value
                  /\ entries(nodes, root[m])[i] = <<nodes[it[i]].key, nodes[it[i]].value>>

\* a reversed map of four entries with both values, whose root has two
\* children and is not the first entry iteration yields
C21_Witness ==
    \E m \in Maps :
        /\ comparator[m] = 0 - 1
        /\ Len(iterator(nodes, root[m])) = 4
        /\ nodes[root[m]].left # Nil /\ nodes[root[m]].right # Nil
        /\ values(nodes, root[m])[1] # values(nodes, root[m])[4]
        /\ keys(nodes, root[m])[1] = 4

----------------------------------------------------------------------------
(* C23 *)

\* C23: get and getEntry on a key not in the map, delete on a key not in the
\* map, and deleteSmallest, deleteLargest, getSmallestEntry and
\* getLargestEntry on an empty map all return absent (undefined) without
\* throwing and leave the map unchanged (same entries, same structure, same
\* size).
C23_AbsentLeavesUnchanged ==
    \A m \in Maps :
        /\ \A k \in Keys :
               getNode(nodes, root[m], comparator[m], k) = Nil =>
                   /\ get(nodes, root[m], comparator[m], k) = Nil
                   /\ \A cond \in Conds :
                          LET del == deleteNode(nodes, root[m], comparator[m], k, cond) IN
                          /\ ~del.err
                          /\ del.node = Nil
                          /\ sameTree(del.h, del.r, nodes, root[m])
        /\ root[m] = Nil =>
               /\ getSmallestNode(nodes, root[m]) = Nil
               /\ getLargestNode(nodes, root[m]) = Nil
               /\ \A cond \in Conds :
                      LET s == deleteSmallestNode(nodes, root[m], cond)
                          l == deleteLargestNode(nodes, root[m], cond)
                      IN /\ ~s.err /\ s.node = Nil /\ s.r = Nil /\ s.h = nodes
                         /\ ~l.err /\ l.node = Nil /\ l.r = Nil /\ l.h = nodes

----------------------------------------------------------------------------
(* C24 *)

\* C24: on a non-empty map in any reachable state (also after deletions and
\* after reverse()), getSmallestEntry() returns the entry that default
\* iteration yields first and getLargestEntry() the entry it yields last.
C24_ExtremesOfIteration ==
    \A m \in Maps :
        LET it == iterator(nodes, root[m]) IN
        root[m] # Nil =>
            /\ getSmallestNode(nodes, root[m]) = it[1]
            /\ getLargestNode(nodes, root[m]) = it[Len(it)]

\* a reversed map of four entries whose smallest entry lies two links below
\* the root and whose largest entry is a child of the root
C24_Witness ==
    \E m \in Maps :
        /\ comparator[m] = 0 - 1
        /\ Cardinality(subtree(nodes, root[m])) = 4
        /\ nodes[root[m]].left # Nil
        /\ nodes[nodes[root[m]].left].left = getSmallestNode(nodes, root[m])
        /\ nodes[root[m]].right = getLargestNode(nodes, root[m])

----------------------------------------------------------------------------
(* C25 *)

\* the cached depth, nodeCount and balanceFactor of node n are those of its
\* actual subtree
cachesExact(h, n) ==
    /\ h[n].depth = height(h, n)
    /\ h[n].nodeCount = Cardinality(subtree(h, n))
    /\ h[n].balanceFactor = height(h, h[n].right) - height(h, h[n].left)

\* C25: after every public mutation, for every node reachable from the root,
\* the cached depth equals the actual height of its subtree, the cached
\* nodeCount the actual number of nodes in its subtree, and the cached
\* balanceFactor the actual right height minus the actual left height.
C25_CachesExact ==
    \A m \in Maps : \A n \in subtree(nodes, root[m]) : cachesExact(nodes, n)

----------------------------------------------------------------------------
(* C26 *)

\* C26: rotateLeft(node), called with node.right present (R) and with correct
\* cached metrics in all of node's descendants, returns R as the new subtree
\* root with R.left = node and node.right = R's former left subtree,
\* preserves the in-order sequence and the set of nodes of the subtree, and
\* leaves the cached depth, nodeCount and balanceFactor of both node and R
\* equal to the values of their actual subtrees; rotateRight is the mirror
\* image.
C26_RotationRecomputes ==
    \A m \in Maps : \A n \in subtree(nodes, root[m]) :
        (\A d \in subtree(nodes, n) \ {n} : cachesExact(nodes, d)) =>
            /\ nodes[n].right # Nil =>
                   LET R == nodes[n].right
                       res == rotateLeft(nodes, n)
                   IN /\ ~res.err
                      /\ res.r = R
                      /\ res.h[R].left = n
                      /\ res.h[n].right = nodes[R].left
                      /\ iterator(res.h, res.r) = iterator(nodes, n)
                      /\ cachesExact(res.h, n)
                      /\ cachesExact(res.h, R)
            /\ nodes[n].left # Nil =>
                   LET L == nodes[n].left
                       res == rotateRight(nodes, n)
                   IN /\ ~res.err
                      /\ res.r = L
                      /\ res.h[L].right = n
                      /\ res.h[n].left = nodes[L].right
                      /\ iterator(res.h, res.r) = iterator(nodes, n)
                      /\ cachesExact(res.h, n)
                      /\ cachesExact(res.h, L)

----------------------------------------------------------------------------
(* C27 *)

\* the node `removed' is cut loose in heap h1 and is not in the tree at r1,
\* and the nodes that were below it in heap h0 are in the tree at r1
cutLoose(h0, h1, r1, removed) ==
    /\ h1[removed].sortedMap = Nil
    /\ h1[removed].left = Nil /\ h1[removed].right = Nil
    /\ removed \notin subtree(h1, r1)
    /\ subtree(h0, removed) \ {removed} \subseteq subtree(h1, r1)

----------------------------------------------------------------------------
(* C28 *)

\* the Fibonacci numbers: Fib(1) = Fib(2) = 1
RECURSIVE Fib(_)
Fib(i) == IF i <= 2 THEN 1 ELSE Fib(i - 1) + Fib(i - 2)

\* after inserting 5,3,8,1,4,7,9 the height is at most 5
heightExample ==
    LET st == setAll([h |-> <<>>, r |-> Nil, err |-> FALSE], <<5, 3, 8, 1, 4, 7, 9>>, 1)
    IN ~st.err /\ height(st.h, st.r) <= 5

\* C28: after any sequence of inserts and deletes that leaves n entries, the
\* actual height h of the tree satisfies the AVL height bound
\* n >= Fib(h + 2) - 1; in particular after inserting 5,3,8,1,4,7,9 the
\* height is at most 5.
C28_HeightBound ==
    /\ heightExample
    /\ \A m \in Maps :
           Cardinality(subtree(nodes, root[m])) >= Fib(height(nodes, root[m]) + 2) - 1

----------------------------------------------------------------------------
(* C29 *)

\* C29: in every reachable state and for every public mutation, no balance()
\* call made during the operation invokes rotateLeft on a node whose right
\* child is absent nor rotateRight on a node whose left child is absent: the
\* cached balanceFactor of a node in the tree is above 1 only when it has a
\* right child and below -1 only when it has a left child, and no set,
\* getOrCompute, delete, deleteSmallest or deleteLargest throws.
C29_RotationsHaveTheirChild ==
    \A m \in Maps :
        /\ \A n \in subtree(nodes, root[m]) :
               /\ nodes[n].balanceFactor > 1 => nodes[n].right # Nil
               /\ nodes[n].balanceFactor < 0 - 1 => nodes[n].left # Nil
        /\ \A k \in Keys :
               /\ \A v \in Values, replace \in BOOLEAN :
                      ~set(nodes, root[m], comparator[m], m, k, v, replace).err
               /\ \A v \in Values :
                      ~getNodeOrCompute(nodes, root[m], comparator[m], m, k, v).err
               /\ \A cond \in Conds :
                      ~deleteNode(nodes, root[m], comparator[m], k, cond).err
        /\ \A cond \in Conds :
               /\ ~deleteSmallestNode(nodes, root[m], cond).err
               /\ ~deleteLargestNode(nodes, root[m], cond).err

\* a map of at least two entries in which the set of an absent key makes
\* balance() rotate the root: the map has a new root afterwards, and the old
\* root is still in the tree
C29_Witness ==
    \E m \in Maps : \E k \in Keys :
        LET res == set(nodes, root[m], comparator[m], m, k, 1, TRUE) IN
        /\ Cardinality(subtree(nodes, root[m])) >= 2
        /\ getNode(nodes, root[m], comparator[m], k) = Nil
        /\ ~res.err
        /\ res.r # root[m]
        /\ root[m] \in subtree(res.h, res.r)

----------------------------------------------------------------------------
(* C30 *)

\* The abstract reference map: the sequence of its [key, value] pairs, listed
\* in the order of comparator c.

\* the position of the pair whose key compares equal to k, 0 if there is none
refFind(ps, c, k) ==
    IF \E i \in 1..Len(ps) : compare(c, k, ps[i][1]) = 0
    THEN CHOOSE i \in 1..Len(ps) : compare(c, k, ps[i][1]) = 0
    ELSE 0

refWithout(ps, i) == SubSeq(ps, 1, i - 1) \o SubSeq(ps, i + 1, Len(ps))

\* the pair [k, v] added at its place in the order
refInsert(ps, c, k, v) ==
    LET below == Cardinality({ i \in 1..Len(ps) : cmpLT(compare(c, ps[i][1], k)) })
    IN SubSeq(ps, 1, below) \o << <<k, v>> >> \o SubSeq(ps, below + 1, Len(ps))

refSet(ps, c, k, v, replace) ==
    LET i == refFind(ps, c, k) IN
    IF i = 0 THEN refInsert(ps, c, k, v)
    ELSE IF replace THEN [ps EXCEPT ![i] = <<k, v>>] ELSE ps

refGetOrCompute(ps, c, k, v) ==
    IF refFind(ps, c, k) = 0 THEN refInsert(ps, c, k, v) ELSE ps

refDelete(ps, c, k, cond) ==
    LET i == refFind(ps, c, k) IN
    IF i # 0 /\ condition(cond) THEN refWithout(ps, i) ELSE ps

refDeleteSmallest(ps, cond) ==
    IF ps # <<>> /\ condition(cond) THEN refWithout(ps, 1) ELSE ps

refDeleteLargest(ps, cond) ==
    IF ps # <<>> /\ condition(cond) THEN refWithout(ps, Len(ps)) ELSE ps

\* C30: for every sequence of set, getOrCompute, delete, deleteSmallest,
\* deleteLargest, reverse and clear applied from an empty map, the sequence
\* of (key, value) pairs produced by default iteration equals that of an
\* abstract reference map to which the same operations are applied: from
\* every reachable state, each operation takes the pairs of the iteration to
\* the pairs the same operation gives on the reference map.
C30_RefinesReferenceMap ==
    \A m \in Maps :
        LET c == comparator[m]
            ps == entries(nodes, root[m])
        IN /\ \A k \in Keys :
                  /\ \A v \in Values, replace \in BOOLEAN :
                         LET res == set(nodes, root[m], c, m, k, v, replace) IN
                         ~res.err /\ entries(res.h, res.r) = refSet(ps, c, k, v, replace)
                  /\ \A v \in Values :
                         LET res == getNodeOrCompute(nodes, root[m], c, m, k, v) IN
                         ~res.err /\ entries(res.h, res.r) = refGetOrCompute(ps, c, k, v)
                  /\ \A cond \in Conds :
                         LET res == deleteNode(nodes, root[m], c, k, cond) IN
                         ~res.err /\ entries(res.h, res.r) = refDelete(ps, c, k, cond)
           /\ \A cond \in Conds :
                  /\ LET res == deleteSmallestNode(nodes, root[m], cond) IN
                     ~res.err /\ entries(res.h, res.r) = refDeleteSmallest(ps, cond)
                  /\ LET res == deleteLargestNode(nodes, root[m], cond) IN
                     ~res.err /\ entries(res.h, res.r) = refDeleteLargest(ps, cond)
           /\ LET res == reverse(nodes, root[m], c) IN
              entries(res.h, res.r) = backwards(ps)
           /\ LET res == clear(nodes, root[m]) IN
              entries(res.h, res.r) = <<>>

\* a map of four entries, with both values, of height 3, in which a set of an
\* absent key rotates below the root and a delete splices in a successor
\* that is not the right child of the node removed
C30_Witness ==
    \E m \in Maps :
        /\ Len(entries(nodes, root[m])) = 4
        /\ height(nodes, root[m]) = 3
        /\ \E i, j \in 1..4 : entries(nodes, root[m])[i][2] # entries(nodes, root[m])[j][2]
        /\ \E k \in Keys :
               LET n == getNode(nodes, root[m], comparator[m], k) IN
               /\ n # Nil
               /\ nodes[n].left # Nil /\ nodes[n].right # Nil
               /\ nodes[nodes[n].right].left # Nil

----------------------------------------------------------------------------
(* C22 *)

\* s is the beginning of t
isPrefix(s, t) == Len(s) <= Len(t) /\ s = SubSeq(t, 1, Len(s))

\* C22: a traversal in progress is not a live cursor over future mutations:
\* whatever set, delete, clear and reverse calls are made between its steps,
\* the entries it has yielded are the first entries of the map as it was
\* when the traversal began, and when it ends it has yielded all of them.
C22_TraversalIsSnapshot ==
    /\ cursor.status = "running" => isPrefix(cursor.yielded, cursor.snapshot)
    /\ cursor.status = "done" => cursor.yielded = cursor.snapshot

====
